---- MODULE Spec2Model ----
(***************************************************************************)
(* A model of generate_results.py: the salary-sacrifice cap reform         *)
(* (create_cap_reform / modify) and the reporting pipeline of main().      *)
(*                                                                         *)
(* Three specifications share the module's variables:                      *)
(*   SpecReform  the reform modifier applied to a simulation's inputs;     *)
(*   Spec        main(), sections 1-7: baseline, comparison tables,        *)
(*               the scenario loop and the revenue decomposition;          *)
(*   SpecDist    main(), sections 10-12: distributional table,             *)
(*               winners and losers, constituency table.                   *)
(*                                                                         *)
(* Numbers.  The program computes in IEEE doubles.  The model computes in  *)
(* exact rationals [num, den]; a rational with den = 0 stands for the      *)
(* non-finite double (nan or inf) numpy yields for a division by zero.     *)
(* Rates are held in hundredths (0.15 is 15, 0.76 is 76).  The f-string    *)
(* formatting of write_csv's cells is not modelled: a row holds the value  *)
(* handed to the format specifier.  Metric tables keep their label and pe  *)
(* columns; the OBR reference and ratio columns, and sections 8-9          *)
(* (it_leakage.csv, behavioural.csv), are left out.  Weights are           *)
(* non-negative.                                                           *)
(***************************************************************************)
EXTENDS Integers, Sequences, FiniteSets, TLC

VARIABLES
    pc,                  \* position in the program
    dataset,             \* per-person input arrays the engine loads
    modifier,            \* the closure create_cap_reform returned
    sim,                 \* the simulation's input store (set_input target)
    weights,             \* person_weight array of the baseline
    stats,               \* main()'s pe_* locals
    csv,                 \* metric tables written so far: file -> rows
    written,             \* files written by write_csv, in order
    results,             \* results dict: scenario name -> revenue_bn
    scenario_rows,       \* scenario_rows list
    s_idx,               \* index of the scenario the loop is at
    decomp,              \* d_it, d_ee, d_er locals of section 7
    exc,                 \* the exception propagating out of main(), if any
    failed_in,           \* history: which engine call raised
    log,                 \* lines printed to stdout
    hh,                  \* household arrays of sections 10-12
    dist_rows,           \* dist_rows list
    pct_change_hh,       \* pct_change_hh array
    wl_rows,             \* wl_rows list
    constituency_results \* constituency_results list

vars == <<pc, dataset, modifier, sim, weights, stats, csv, written, results,
          scenario_rows, s_idx, decomp, exc, failed_in, log, hh, dist_rows,
          pct_change_hh, wl_rows, constituency_results>>

reformVars == <<dataset, modifier, sim>>
mainVars == <<weights, stats, csv, results, scenario_rows, s_idx, decomp,
              exc, failed_in, log>>
distVars == <<hh, dist_rows, pct_change_hh, wl_rows, constituency_results>>

----------------------------------------------------------------------------
(* Bounds of the model *)

MaxPersons == 2

MaxAmount == 2

MaxHouseholds == 2

Persons == 1..MaxPersons

Households == 1..MaxHouseholds

----------------------------------------------------------------------------
(* Program constants *)

CAP == 2000

NEW_NI_RATE == 15

RateScale == 100

BasicRateLimit == 50270

NumDeciles == 10

YEAR == 2029

----------------------------------------------------------------------------
(* Arithmetic helpers *)

Max(a, b) == IF a >= b THEN a ELSE b

Min(a, b) == IF a <= b THEN a ELSE b

RECURSIVE SumOver(_, _)
SumOver(f, S) ==
    IF S = {} THEN 0
    ELSE LET i == CHOOSE x \in S : TRUE IN f[i] + SumOver(f, S \ {i})

Sum(arr) == SumOver(arr, DOMAIN arr)

Rat(n, d) == [num |-> n, den |-> d]

\* a / b on doubles; the sign is kept in the numerator
Div(a, b) == IF b < 0 THEN Rat(-a, -b) ELSE Rat(a, b)

IsFinite(r) == r.den # 0

RatEq(a, b) == IsFinite(a) /\ IsFinite(b) /\ a.num * b.den = b.num * a.den

RatLt(a, b) == IsFinite(a) /\ IsFinite(b) /\ a.num * b.den < b.num * a.den

RatLeq(a, b) == IsFinite(a) /\ IsFinite(b) /\ a.num * b.den <= b.num * a.den

----------------------------------------------------------------------------
(* create_cap_reform and its modifier *)

PassThroughRates == {0, 76, 100}

EmployerRates == {0, NEW_NI_RATE}

Amounts == 0..MaxAmount

NoModifier == [cap |-> -1, year |-> 0, employer_ni_rate |-> 0,
               pass_through_rate |-> 0, redirect_to_pension |-> FALSE]

NoPeople == [ss |-> <<>>, emp |-> <<>>, pens |-> <<>>]

NoSim == [employment_income |-> <<>>,
          employee_pension_contributions |-> <<>>,
          pension_contributions_via_salary_sacrifice |-> <<>>]

\* a fresh simulation holds the dataset's arrays
LoadSim(d) ==
    [employment_income |-> [i \in DOMAIN d.emp |-> Rat(d.emp[i], 1)],
     employee_pension_contributions |-> d.pens,
     pension_contributions_via_salary_sacrifice |-> d.ss]

\* faulty variant: the excess without its floor at 0
ExcessNoFloor(ss, cap) == [i \in DOMAIN ss |-> ss[i] - cap]

\* excess = np.maximum(ss - cap, 0)
Excess(ss, cap) == [i \in DOMAIN ss |-> Max(ss[i] - cap, 0)]

\* pension_redirect = excess if redirect_to_pension else zeros
PensionRedirect(excess, redirect_to_pension) ==
    IF redirect_to_pension THEN excess ELSE [i \in DOMAIN excess |-> 0]

\* faulty variant: the guard without the test of total income
PassThroughAppliesNoIncomeCheck(pass_through_rate, emp) ==
    pass_through_rate > 0

\* the guard of the haircut branch
PassThroughApplies(pass_through_rate, emp) ==
    pass_through_rate > 0 /\ Sum(emp) > 0

\* new_emp, with haircut_rate = passed_cost / emp.sum() kept as a fraction
\* over RateScale * RateScale * emp.sum()
NewEmp(emp, excess, employer_ni_rate, pass_through_rate) ==
    IF PassThroughApplies(pass_through_rate, emp)
    THEN LET total_ni_increase ==
                 Sum([i \in DOMAIN excess |-> excess[i] * employer_ni_rate])
             passed_cost == total_ni_increase * pass_through_rate
             den == RateScale * RateScale * Sum(emp)
         IN  [i \in DOMAIN emp |->
                 Rat(emp[i] * (den - passed_cost) + excess[i] * den, den)]
    ELSE [i \in DOMAIN emp |-> Rat(emp[i] + excess[i], 1)]

\* faulty variant: the sacrifice written back untruncated
NewSalarySacrificeUncapped(ss, cap) == ss

\* np.minimum(ss, cap)
NewSalarySacrifice(ss, cap) == [i \in DOMAIN ss |-> Min(ss[i], cap)]

\* the three set_input calls of modify(sim)
ModifiedSim(d, m) ==
    LET excess == Excess(d.ss, m.cap)
        pension_redirect == PensionRedirect(excess, m.redirect_to_pension)
    IN  [employment_income |->
             NewEmp(d.emp, excess, m.employer_ni_rate, m.pass_through_rate),
         employee_pension_contributions |->
             [i \in DOMAIN d.pens |-> d.pens[i] + pension_redirect[i]],
         pension_contributions_via_salary_sacrifice |->
             NewSalarySacrifice(d.ss, m.cap)]

----------------------------------------------------------------------------
(* SpecReform: a simulation is built under a reform scenario.  main()      *)
(* calls create_cap_reform, then the engine loads the dataset and calls    *)
(* the modifier once on the fresh simulation.                              *)

PensionAmounts == {0, 1}

EmploymentIncomes == {0, 1, 2}

Datasets ==
    [ss : [Persons -> Amounts], emp : [Persons -> EmploymentIncomes],
     pens : [Persons -> PensionAmounts]]

NoStats ==
    [baseline_balance |-> 0, pe_total_ss |-> 0, pe_above_cap |-> 0,
     pe_below_cap |-> 0, pe_total_workers |-> 0, pe_total_wages |-> 0,
     pe_total_excess |-> 0, pe_avg_excess |-> Rat(0, 1)]

MainIdle ==
    /\ weights = <<>>
    /\ stats = NoStats
    /\ csv = <<>>
    /\ results = <<>>
    /\ scenario_rows = <<>>
    /\ s_idx = 0
    /\ decomp = [d_it |-> 0, d_ee |-> 0, d_er |-> 0]
    /\ exc = [raised |-> FALSE, scenario |-> "none"]
    /\ failed_in = "none"
    /\ log = <<>>

DistIdle ==
    /\ hh = [baseline_hh_income |-> <<>>, reformed_hh_income |-> <<>>,
             hh_decile |-> <<>>, hh_weight |-> <<>>,
             hh_count_people |-> <<>>]
    /\ dist_rows = <<>>
    /\ pct_change_hh = <<>>
    /\ wl_rows = <<>>
    /\ constituency_results = <<>>

ReformIdle ==
    /\ dataset = NoPeople
    /\ modifier = NoModifier
    /\ sim = NoSim

InitReform ==
    /\ pc = "reform_start"
    /\ dataset \in Datasets
    /\ modifier = NoModifier
    /\ sim = LoadSim(dataset)
    /\ written = <<>>
    /\ MainIdle
    /\ DistIdle

\* create_cap_reform(cap, year, employer_ni_rate, pass_through_rate,
\*                   redirect_to_pension) returns the closure
CreateCapReform ==
    /\ pc = "reform_start"
    /\ \E cap \in Amounts, rate \in EmployerRates, pt \in PassThroughRates,
          redirect \in BOOLEAN :
          modifier' = [cap |-> cap, year |-> YEAR, employer_ni_rate |-> rate,
                       pass_through_rate |-> pt,
                       redirect_to_pension |-> redirect]
    /\ pc' = "reform_built"
    /\ UNCHANGED <<dataset, sim, written>>
    /\ UNCHANGED mainVars
    /\ UNCHANGED distVars

\* modify(sim): reads the three arrays, writes the three new ones
Modify ==
    /\ pc = "reform_built"
    /\ sim' = ModifiedSim(dataset, modifier)
    /\ pc' = "reform_applied"
    /\ UNCHANGED <<dataset, modifier, written>>
    /\ UNCHANGED mainVars
    /\ UNCHANGED distVars

NextReform == CreateCapReform \/ Modify

SpecReform == InitReform /\ [][NextReform]_vars

----------------------------------------------------------------------------
(* Properties of the reform modifier *)

Applied == pc = "reform_applied"

new_ss == sim.pension_contributions_via_salary_sacrifice

new_pens == sim.employee_pension_contributions

new_emp == sim.employment_income

AboveCap(i) == dataset.ss[i] > modifier.cap

\* C2: after the modifier has run, every person's new salary sacrifice is
\* min(ss, cap) and so never exceeds the cap, whatever the pass-through
\* rate, the employer rate and the redirect flag are.
C2_SacrificeCapped ==
    Applied =>
        \A i \in Persons :
            /\ new_ss[i] <= modifier.cap
            /\ new_ss[i] = IF dataset.ss[i] <= modifier.cap
                           THEN dataset.ss[i] ELSE modifier.cap

C2_Witness ==
    /\ Applied
    /\ modifier.pass_through_rate > 0
    /\ \E i \in Persons : AboveCap(i) /\ new_ss[i] = modifier.cap
    /\ \E i \in Persons : dataset.ss[i] < modifier.cap

\* C3 as stated: for every person at or below the cap the modifier changes
\* none of the three arrays.
C3_NoOpBelowCap_Original ==
    Applied =>
        \A i \in Persons :
            ~AboveCap(i) =>
                /\ RatEq(new_emp[i], Rat(dataset.emp[i], 1))
                /\ new_pens[i] = dataset.pens[i]
                /\ new_ss[i] = dataset.ss[i]

\* C3 as amended: for every person at or below the cap the modifier leaves
\* the pension contribution and the salary sacrifice unchanged, and leaves
\* the employment income unchanged whenever no haircut is in force: the
\* pass-through rate is 0, total employment income is 0, the employer rate
\* is 0, or nobody in the population is above the cap.
C3_NoOpBelowCap ==
    Applied =>
        \A i \in Persons :
            ~AboveCap(i) =>
                /\ new_pens[i] = dataset.pens[i]
                /\ new_ss[i] = dataset.ss[i]
                /\ (\/ modifier.pass_through_rate = 0
                    \/ Sum(dataset.emp) = 0
                    \/ modifier.employer_ni_rate = 0
                    \/ \A j \in Persons : ~AboveCap(j))
                   => RatEq(new_emp[i], Rat(dataset.emp[i], 1))

C3_Witness ==
    /\ Applied
    /\ modifier.pass_through_rate > 0
    /\ modifier.employer_ni_rate > 0
    /\ modifier.redirect_to_pension
    /\ \A j \in Persons : ~AboveCap(j)
    /\ \E i \in Persons : dataset.ss[i] = modifier.cap /\ dataset.emp[i] > 0
                          /\ dataset.pens[i] > 0

\* C4: with a pass-through rate of 0, or a population whose employment
\* income sums to 0, every person's new employment income is exactly
\* employment income + max(ss - cap, 0): a finite value, no haircut.
C4_NoPassThrough ==
    Applied =>
        ((modifier.pass_through_rate = 0 \/ Sum(dataset.emp) = 0) =>
            \A i \in Persons :
                RatEq(new_emp[i],
                      Rat(dataset.emp[i]
                          + Max(dataset.ss[i] - modifier.cap, 0), 1)))

C4_Witness ==
    /\ Applied
    /\ modifier.pass_through_rate > 0
    /\ modifier.employer_ni_rate > 0
    /\ Sum(dataset.emp) = 0
    /\ \E i \in Persons : AboveCap(i)

----------------------------------------------------------------------------
(* Spec: main(), sections 1-7.  The microsimulation engine is an opaque    *)
(* collaborator: each Microsimulation(...) call either raises or returns,  *)
(* and each calculate(...) returns an array drawn from a small set.        *)
(* Person-level amounts are in pounds; government balance and the tax      *)
(* aggregates of section 7 are in units of one billion pounds, so the      *)
(* source's division by 1e9 is the change of unit.                         *)

MainSalarySacrifice == {0, 1500, 5000}

MainEmploymentIncomes == {0, 30000}

PersonWeights == {0, 1}

MainDatasets ==
    [ss : [Persons -> MainSalarySacrifice],
     emp : [Persons -> MainEmploymentIncomes],
     pens : [Persons -> {0}]]

BaselineBalances == {-50}

ReformedBalances == {-47, -45}

TaxableIncomes == {BasicRateLimit, BasicRateLimit + 1}

\* per-person liabilities the engine reports, the same for every person
TaxArrays == {[i \in Persons |-> v] : v \in {0, 1}}

\* the two OBR reference rates the pe column uses
OBR == [ss_ee_nics_rate |-> Rat(27, 1000), ss_er_nics_rate |-> Rat(15, 100)]

scenario_defs ==
    << [name |-> "Absorb cost + Maintain pension",
        pass_through |-> 0, redirect |-> TRUE],
       [name |-> "Spread cost + Maintain pension",
        pass_through |-> 100, redirect |-> TRUE],
       [name |-> "Absorb cost + Take cash",
        pass_through |-> 0, redirect |-> FALSE],
       [name |-> "Spread cost + Take cash",
        pass_through |-> 100, redirect |-> FALSE],
       [name |-> "OBR 76% pass-through + Maintain pension",
        pass_through |-> 76, redirect |-> TRUE] >>

ScenarioNames == {scenario_defs[i].name : i \in DOMAIN scenario_defs}

\* weights[mask].sum()
MaskedSum(arr, mask) == SumOver(arr, {i \in DOMAIN arr : mask[i]})

\* (values * w).sum()
WeightedSum(values, w) == Sum([i \in DOMAIN values |-> values[i] * w[i]])

Row(metric, pe) == [metric |-> metric, pe |-> pe]

\* write_csv(filename, rows, headers) for a metric table
WriteCsv(filename, rows) ==
    /\ csv' = (filename :> rows) @@ csv
    /\ written' = Append(written, filename)

\* the exception of an engine call leaves main(): nothing catches it, and
\* nothing adds to it, so it names no scenario
Abort(where) ==
    /\ pc' = "aborted"
    /\ exc' = [raised |-> TRUE, scenario |-> "none"]
    /\ failed_in' = where

\* lines 106-115
BaselineStats(ss, emp, w, balance) ==
    LET has_ss == [i \in DOMAIN ss |-> ss[i] > 0]
        above_cap == [i \in DOMAIN ss |-> ss[i] > CAP]
        has_employment == [i \in DOMAIN emp |-> emp[i] > 0]
        excess == Excess(ss, CAP)
        pe_total_ss == MaskedSum(w, has_ss)
        pe_above_cap == MaskedSum(w, above_cap)
    IN  [baseline_balance |-> balance,
         pe_total_ss |-> pe_total_ss,
         pe_above_cap |-> pe_above_cap,
         pe_below_cap |-> pe_total_ss - pe_above_cap,
         pe_total_workers |-> MaskedSum(w, has_employment),
         pe_total_wages |-> WeightedSum(emp, w),
         pe_total_excess |-> WeightedSum(excess, w),
         pe_avg_excess |->
             Div(MaskedSum([i \in DOMAIN ss |-> excess[i] * w[i]], above_cap),
                 MaskedSum(w, above_cap))]

InitMain ==
    /\ pc = "start"
    /\ dataset \in MainDatasets
    /\ modifier = NoModifier
    /\ sim = NoSim
    /\ written = <<>>
    /\ MainIdle
    /\ DistIdle

\* section 1: the baseline simulation and the pe_* locals
Baseline ==
    /\ pc = "start"
    /\ \/ /\ Abort("baseline")
          /\ log' = Append(log, "Running baseline simulation...")
          /\ UNCHANGED <<weights, stats>>
       \/ \E w \in [Persons -> PersonWeights], b \in BaselineBalances :
             /\ weights' = w
             /\ stats' = BaselineStats(dataset.ss, dataset.emp, w, b)
             /\ log' = log \o <<"Running baseline simulation...",
                                "Baseline ready">>
             /\ pc' = "tax_base"
             /\ UNCHANGED <<exc, failed_in>>
    /\ UNCHANGED <<csv, written, results, scenario_rows, s_idx, decomp>>
    /\ UNCHANGED reformVars
    /\ UNCHANGED distVars

\* section 2: tax_base.csv (the pe column, pounds)
TaxBase ==
    /\ pc = "tax_base"
    /\ LET pe_mech_er == Rat(stats.pe_total_excess * OBR.ss_er_nics_rate.num,
                             OBR.ss_er_nics_rate.den)
           pe_mech_ee == Rat(stats.pe_total_excess * OBR.ss_ee_nics_rate.num,
                             OBR.ss_ee_nics_rate.den)
       IN
       WriteCsv("tax_base.csv",
          << Row("SS tax base above cap", Rat(stats.pe_total_excess, 1)),
             Row("Workers above cap", Rat(stats.pe_above_cap, 1)),
             Row("Avg excess per worker", stats.pe_avg_excess),
             Row("Mechanical ER NICs", pe_mech_er),
             Row("Mechanical EE NICs", pe_mech_ee),
             Row("Mechanical total NICs",
                 Rat(pe_mech_er.num * pe_mech_ee.den
                     + pe_mech_ee.num * pe_mech_er.den,
                     pe_mech_er.den * pe_mech_ee.den)) >>)
    /\ pc' = "population"
    /\ UNCHANGED <<weights, stats, results, scenario_rows, s_idx, decomp,
                   exc, failed_in, log>>
    /\ UNCHANGED reformVars
    /\ UNCHANGED distVars

\* section 3: population.csv
Population ==
    /\ pc = "population"
    /\ WriteCsv("population.csv",
          << Row("Total SS contributors", Rat(stats.pe_total_ss, 1)),
             Row("Workers above cap", Rat(stats.pe_above_cap, 1)),
             Row("Workers below cap", Rat(stats.pe_below_cap, 1)),
             Row("Total employed", Rat(stats.pe_total_workers, 1)) >>)
    /\ pc' = "wages_employment"
    /\ UNCHANGED <<weights, stats, results, scenario_rows, s_idx, decomp,
                   exc, failed_in, log>>
    /\ UNCHANGED reformVars
    /\ UNCHANGED distVars

\* section 4: wages_employment.csv
WagesEmployment ==
    /\ pc = "wages_employment"
    /\ WriteCsv("wages_employment.csv",
          << Row("Total wages and salaries", Rat(stats.pe_total_wages, 1)),
             Row("Employment", Rat(stats.pe_total_workers, 1)) >>)
    /\ pc' = "nics_rates"
    /\ UNCHANGED <<weights, stats, results, scenario_rows, s_idx, decomp,
                   exc, failed_in, log>>
    /\ UNCHANGED reformVars
    /\ UNCHANGED distVars

\* lines 158-162
NicsRows(ss, w, taxable_income) ==
    LET above_cap == [i \in DOMAIN ss |-> ss[i] > CAP]
        basic_above == [i \in DOMAIN ss |->
                           above_cap[i] /\ taxable_income[i] <= BasicRateLimit]
        higher_above == [i \in DOMAIN ss |->
                            above_cap[i] /\ taxable_income[i] > BasicRateLimit]
        n_basic == MaskedSum(w, basic_above)
        n_higher == MaskedSum(w, higher_above)
        n_above == MaskedSum(w, above_cap)
    IN  << Row("Basic rate", Div(n_basic, n_above)),
           Row("Higher rate", Div(n_higher, n_above)),
           Row("PE implied average",
               Div(n_basic * 8 + n_higher * 2, n_above * 100)) >>

\* section 5: nics_rates.csv
NicsRates ==
    /\ pc = "nics_rates"
    /\ \E taxable_income \in [Persons -> TaxableIncomes] :
          WriteCsv("nics_rates.csv",
                   NicsRows(dataset.ss, weights, taxable_income))
    /\ pc' = "scenarios"
    /\ s_idx' = 1
    /\ UNCHANGED <<weights, stats, results, scenario_rows, decomp,
                   exc, failed_in, log>>
    /\ UNCHANGED reformVars
    /\ UNCHANGED distVars

\* the closure main() builds for a scenario
ScenarioModifier(pass_through, redirect) ==
    [cap |-> CAP, year |-> YEAR, employer_ni_rate |-> NEW_NI_RATE,
     pass_through_rate |-> pass_through, redirect_to_pension |-> redirect]

\* section 6, one turn of the loop over scenario_defs
RunScenario ==
    /\ pc = "scenarios"
    /\ s_idx \in DOMAIN scenario_defs
    /\ LET s == scenario_defs[s_idx] IN
       /\ modifier' = ScenarioModifier(s.pass_through, s.redirect)
       /\ \/ /\ Abort(s.name)
             /\ UNCHANGED <<results, scenario_rows, s_idx, log>>
          \/ \E reformed_balance \in ReformedBalances :
                LET revenue_bn == reformed_balance - stats.baseline_balance
                IN  /\ results' = (s.name :> revenue_bn) @@ results
                    /\ scenario_rows' =
                           Append(scenario_rows,
                                  [name |-> s.name,
                                   pass_through_pct |-> s.pass_through,
                                   redirect_to_pension |-> s.redirect,
                                   revenue_bn |-> revenue_bn])
                    /\ log' = Append(log, s.name)
                    /\ s_idx' = s_idx + 1
                    /\ pc' = pc
                    /\ UNCHANGED <<exc, failed_in>>
    /\ UNCHANGED <<weights, stats, csv, written, decomp, dataset, sim>>
    /\ UNCHANGED distVars

\* line 202: scenarios.csv, after the loop
WriteScenarios ==
    /\ pc = "scenarios"
    /\ s_idx = Len(scenario_defs) + 1
    /\ written' = Append(written, "scenarios.csv")
    /\ pc' = "decomposition"
    /\ UNCHANGED <<weights, stats, csv, results, scenario_rows, s_idx, decomp,
                   exc, failed_in, log>>
    /\ UNCHANGED reformVars
    /\ UNCHANGED distVars

\* lines 211-221: d = (reformed weighted sum - baseline weighted sum) / 1e9
Delta(b_values, w, r_values, rw) ==
    WeightedSum(r_values, rw) - WeightedSum(b_values, w)

\* lines 223-232
DecompositionRows(d, res) ==
    << Row("Income tax", Rat(d.d_it, 1)),
       Row("Employee NICs", Rat(d.d_ee, 1)),
       Row("Employer NICs", Rat(d.d_er, 1)),
       Row("NICs subtotal", Rat(d.d_ee + d.d_er, 1)),
       Row("Total", Rat(res["Absorb cost + Maintain pension"], 1)) >>

\* section 7: revenue decomposition.  person_weight is a dataset input the
\* modifier never sets, so the reformed simulation reports the baseline's.
Decomposition ==
    /\ pc = "decomposition"
    /\ modifier' = ScenarioModifier(0, TRUE)
    /\ \/ /\ Abort("decomposition")
          /\ UNCHANGED <<decomp, csv, written>>
       \/ \E b_it \in TaxArrays, r_it \in TaxArrays,
             b_ee \in TaxArrays, r_ee \in TaxArrays,
             b_er \in TaxArrays, r_er \in TaxArrays :
             LET rw == weights
                 d == [d_it |-> Delta(b_it, weights, r_it, rw),
                       d_ee |-> Delta(b_ee, weights, r_ee, rw),
                       d_er |-> Delta(b_er, weights, r_er, rw)]
             IN  /\ decomp' = d
                 /\ WriteCsv("revenue_decomposition.csv",
                             DecompositionRows(d, results))
                 /\ pc' = "it_leakage"
                 /\ UNCHANGED <<exc, failed_in>>
    /\ UNCHANGED <<weights, stats, results, scenario_rows, s_idx, log,
                   dataset, sim>>
    /\ UNCHANGED distVars

Next ==
    \/ Baseline
    \/ TaxBase
    \/ Population
    \/ WagesEmployment
    \/ NicsRates
    \/ RunScenario
    \/ WriteScenarios
    \/ Decomposition

Spec == InitMain /\ [][Next]_vars

----------------------------------------------------------------------------
(* Properties of main(), sections 1-7 *)

DecompositionWritten ==
    \E k \in DOMAIN written : written[k] = "revenue_decomposition.csv"

ScenariosWritten == \E k \in DOMAIN written : written[k] = "scenarios.csv"

ComponentSum == decomp.d_it + decomp.d_ee + decomp.d_er

TotalRow == csv["revenue_decomposition.csv"][5]

\* C1: once the decomposition table is written, income-tax delta plus
\* employee-NIC delta plus employer-NIC delta equals the scenario's total
\* revenue delta, and the table's Total row equals the sum of its three
\* component rows.
C1_DecompositionIdentity ==
    DecompositionWritten =>
        /\ ComponentSum = results["Absorb cost + Maintain pension"]
        /\ RatEq(TotalRow.pe, Rat(ComponentSum, 1))

\* C5: when the engine raises while a scenario runs, the run stops, neither
\* scenarios.csv nor a later table is written, and the failure leaving
\* main() carries the name of the scenario that failed.
C5_FailureNamesScenario ==
    (pc = "aborted" /\ failed_in \in ScenarioNames) =>
        /\ exc.raised
        /\ ~ScenariosWritten
        /\ ~DecompositionWritten
        /\ exc.scenario = failed_in

\* C6: no metric row is written from a zero denominator: every value in a
\* written table is finite (never nan or inf).
C6_NoRowFromZeroDenominator ==
    \A f \in DOMAIN csv :
        \A k \in DOMAIN csv[f] : IsFinite(csv[f][k].pe)

IdentityDiagnostic ==
    \/ \E k \in DOMAIN log : log[k] = "IdentityViolation"
    \/ (exc.raised /\ failed_in = "identity")

\* C7: the decomposition table is never written with a Total that differs
\* from the sum of its components unless the run reports the violation.
C7_IdentityViolationSurfaced ==
    (DecompositionWritten
        /\ ComponentSum # results["Absorb cost + Maintain pension"])
    => IdentityDiagnostic

----------------------------------------------------------------------------
(* SpecDist: main(), sections 10-12, from the household arrays the two     *)
(* simulations report.  Incomes are in pounds.                             *)

BaselineIncomes == {-1000, 0, 20000}

IncomeChanges == {-100, 1}

HouseholdDeciles == {1, 2}

\* (household_weight, household_count_people) of one household
HouseholdWeightAndSize == {<<0, 1>>, <<1, 1>>, <<1, 2>>}

ConstituencyCodes == {"E14001063"}

Deciles == 1..NumDeciles

HouseholdData ==
    {[baseline_hh_income |-> b,
      reformed_hh_income |-> [i \in Households |-> b[i] + c[i]],
      hh_decile |-> d,
      hh_weight |-> [i \in Households |-> wn[i][1]],
      hh_count_people |-> [i \in Households |-> wn[i][2]]] :
        b \in [Households -> BaselineIncomes],
        c \in [Households -> IncomeChanges],
        d \in [Households -> HouseholdDeciles],
        wn \in [Households -> HouseholdWeightAndSize]}

RatSub(a, b) == Rat(a.num * b.den - b.num * a.den, a.den * b.den)

RatDiv(a, b) == Div(a.num * b.den, a.den * b.num)

\* lines 278-286 for one decile
DistRow(h, d) ==
    LET mask == [i \in DOMAIN h.hh_decile |-> h.hh_decile[i] = d]
        total_w == MaskedSum(h.hh_weight, mask)
        avg_baseline_val ==
            Div(MaskedSum([i \in DOMAIN mask |->
                    h.baseline_hh_income[i] * h.hh_weight[i]], mask), total_w)
        avg_reformed_val ==
            Div(MaskedSum([i \in DOMAIN mask |->
                    h.reformed_hh_income[i] * h.hh_weight[i]], mask), total_w)
        avg_change == RatSub(avg_reformed_val, avg_baseline_val)
        pct_change ==
            IF avg_baseline_val.num # 0
            THEN RatDiv(Rat(100 * avg_change.num, avg_change.den),
                        avg_baseline_val)
            ELSE Rat(0, 1)
    IN  [decile |-> d, total_w |-> total_w,
         avg_baseline |-> avg_baseline_val,
         avg_reformed |-> avg_reformed_val,
         avg_change |-> avg_change, pct_change |-> pct_change]

\* lines 276-288: the loop over deciles, `continue` on an empty decile
RECURSIVE DistRowsFrom(_, _)
DistRowsFrom(h, d) ==
    IF d > NumDeciles THEN <<>>
    ELSE LET row == DistRow(h, d)
         IN  (IF row.total_w = 0 THEN <<>> ELSE <<row>>)
             \o DistRowsFrom(h, d + 1)

InitDist ==
    /\ pc = "distributional"
    /\ hh \in HouseholdData
    /\ dist_rows = <<>>
    /\ pct_change_hh = <<>>
    /\ wl_rows = <<>>
    /\ constituency_results = <<>>
    /\ written = <<>>
    /\ ReformIdle
    /\ MainIdle

\* section 10: distributional.csv
Distributional ==
    /\ pc = "distributional"
    /\ dist_rows' = DistRowsFrom(hh, 1)
    /\ written' = Append(written, "distributional.csv")
    /\ pc' = "winners_losers"
    /\ UNCHANGED <<hh, pct_change_hh, wl_rows, constituency_results>>
    /\ UNCHANGED reformVars
    /\ UNCHANGED mainVars

\* lines 294-296
PctChangeHH(h) ==
    [i \in DOMAIN h.baseline_hh_income |->
        LET income_change == h.reformed_hh_income[i] - h.baseline_hh_income[i]
            capped_baseline == Max(h.baseline_hh_income[i], 1)
        IN  Div(income_change * 100, capped_baseline)]

\* threshold = 0.01
threshold == Rat(1, 100)

NegThreshold == Rat(-threshold.num, threshold.den)

\* pct_change_hh < -threshold
IsLoser(pct) == RatLt(pct, NegThreshold)

\* pct_change_hh > threshold
IsWinner(pct) == RatLt(threshold, pct)

\* faulty variant: the winners left in the remainder
NoChangeWinnersNotSubtracted(total_people, losers, winners) ==
    total_people - losers

\* no_change = total_people - losers - winners
NoChange(total_people, losers, winners) == total_people - losers - winners

\* lines 303-317 for one decile
WLRow(h, pct, d) ==
    LET people == [i \in DOMAIN h.hh_decile |->
                      h.hh_count_people[i] * h.hh_weight[i]]
        valid_mask == [i \in DOMAIN h.hh_decile |-> h.hh_decile[i] >= 1]
        decile_mask == [i \in DOMAIN h.hh_decile |->
                           valid_mask[i] /\ h.hh_decile[i] = d]
        total_people == MaskedSum(people, decile_mask)
        losers == MaskedSum(people, [i \in DOMAIN decile_mask |->
                                        decile_mask[i] /\ IsLoser(pct[i])])
        winners == MaskedSum(people, [i \in DOMAIN decile_mask |->
                                         decile_mask[i] /\ IsWinner(pct[i])])
        no_change == NoChange(total_people, losers, winners)
    IN  [decile |-> d, total_people |-> total_people,
         pct_losers |-> Div(100 * losers, total_people),
         pct_winners |-> Div(100 * winners, total_people),
         pct_no_change |-> Div(100 * no_change, total_people)]

\* lines 301-317: the loop over deciles
RECURSIVE WLRowsFrom(_, _, _)
WLRowsFrom(h, pct, d) ==
    IF d > NumDeciles THEN <<>>
    ELSE LET row == WLRow(h, pct, d)
         IN  (IF row.total_people = 0 THEN <<>> ELSE <<row>>)
             \o WLRowsFrom(h, pct, d + 1)

\* section 11: winners_losers.csv
WinnersLosers ==
    /\ pc = "winners_losers"
    /\ pct_change_hh' = PctChangeHH(hh)
    /\ wl_rows' = WLRowsFrom(hh, PctChangeHH(hh), 1)
    /\ written' = Append(written, "winners_losers.csv")
    /\ pc' = "constituency"
    /\ UNCHANGED <<hh, dist_rows, constituency_results>>
    /\ UNCHANGED reformVars
    /\ UNCHANGED mainVars

\* one weight vector per constituency, over the households
ConstituencyWeightVectors == {[i \in Households |-> v] : v \in {0, 1}}

\* lines 346-351: MicroSeries.sum() is the weighted sum, .count() the sum
\* of the weights
ConstituencyRow(h, weight, c) ==
    [constituency_code |-> c,
     avg_change |->
         Div(WeightedSum(h.reformed_hh_income, weight)
             - WeightedSum(h.baseline_hh_income, weight), Sum(weight))]

\* section 12: constituency.csv, or the skip when an input file is missing
Constituency ==
    /\ pc = "constituency"
    /\ \/ /\ log' = Append(log, "Constituency data not found, skipping.")
          /\ UNCHANGED <<constituency_results, written>>
       \/ \E constituency_weights \in
                [ConstituencyCodes -> ConstituencyWeightVectors] :
             /\ constituency_results' =
                    [c \in ConstituencyCodes |->
                        ConstituencyRow(hh, constituency_weights[c], c)]
             /\ written' = Append(written, "constituency.csv")
             /\ UNCHANGED log
    /\ pc' = "done"
    /\ UNCHANGED <<hh, dist_rows, pct_change_hh, wl_rows>>
    /\ UNCHANGED reformVars
    /\ UNCHANGED <<weights, stats, csv, results, scenario_rows, s_idx,
                   decomp, exc, failed_in>>

NextDist == Distributional \/ WinnersLosers \/ Constituency

SpecDist == InitDist /\ [][NextDist]_vars

----------------------------------------------------------------------------
(* Properties of main(), sections 10-12 *)

DistDone == pc \in {"winners_losers", "constituency", "done"}

WLDone == pc \in {"constituency", "done"}

RatAdd(a, b) == Rat(a.num * b.den + b.num * a.den, a.den * b.den)

\* weighted people of decile d whose household satisfies P
PeopleIn(d, P(_)) ==
    SumOver([i \in Households |-> hh.hh_count_people[i] * hh.hh_weight[i]],
            {i \in Households : hh.hh_decile[i] = d /\ P(i)})

AnyHousehold(i) == TRUE

CountedLoser(i) == IsLoser(pct_change_hh[i])

CountedWinner(i) == IsWinner(pct_change_hh[i])

CountedUnchanged(i) == ~CountedLoser(i) /\ ~CountedWinner(i)

WLRowsOf(d) == {k \in DOMAIN wl_rows : wl_rows[k].decile = d}

Percent(r) == RatLeq(Rat(0, 1), r) /\ RatLeq(r, Rat(100, 1))

\* C8: a decile with non-zero weighted population has exactly one row, whose
\* loser, winner and no-change shares each lie between 0% and 100% and sum
\* to 100%, the no-change share being that of the households that are
\* neither losers nor winners; a decile with zero weighted population has
\* no row.
C8_SharesPartition ==
    WLDone =>
        \A d \in Deciles :
            IF PeopleIn(d, AnyHousehold) # 0
            THEN /\ Cardinality(WLRowsOf(d)) = 1
                 /\ \A k \in WLRowsOf(d) :
                       LET row == wl_rows[k]
                           total == PeopleIn(d, AnyHousehold)
                       IN  /\ Percent(row.pct_losers)
                           /\ Percent(row.pct_winners)
                           /\ Percent(row.pct_no_change)
                           /\ RatEq(RatAdd(RatAdd(row.pct_losers,
                                                  row.pct_winners),
                                           row.pct_no_change), Rat(100, 1))
                           /\ RatEq(row.pct_losers,
                                    Div(100 * PeopleIn(d, CountedLoser),
                                        total))
                           /\ RatEq(row.pct_winners,
                                    Div(100 * PeopleIn(d, CountedWinner),
                                        total))
                           /\ RatEq(row.pct_no_change,
                                    Div(100 * PeopleIn(d, CountedUnchanged),
                                        total))
            ELSE WLRowsOf(d) = {}

C8_Witness ==
    /\ WLDone
    /\ \E k \in DOMAIN wl_rows :
          /\ wl_rows[k].pct_losers.num > 0
          /\ wl_rows[k].pct_winners.num > 0
          /\ wl_rows[k].pct_losers.num # wl_rows[k].pct_winners.num

\* the household's change relative to its baseline income (floored at 1)
RelativeChange(i) ==
    Div(hh.reformed_hh_income[i] - hh.baseline_hh_income[i],
        Max(hh.baseline_hh_income[i], 1))

OnePercent == Rat(1, 100)

LosesOverOnePercent(i) ==
    RatLt(RelativeChange(i), Rat(-OnePercent.num, OnePercent.den))

GainsOverOnePercent(i) == RatLt(OnePercent, RelativeChange(i))

\* C9: a household is counted as a loser exactly when its income falls by
\* more than 1% of its baseline income and as a winner exactly when it
\* rises by more than 1%; a change of less than 1% is counted as no change.
C9_ThresholdIsOnePercent ==
    WLDone =>
        \A k \in DOMAIN wl_rows :
            LET row == wl_rows[k]
                total == PeopleIn(row.decile, AnyHousehold)
            IN  /\ RatEq(row.pct_losers,
                         Div(100 * PeopleIn(row.decile, LosesOverOnePercent),
                             total))
                /\ RatEq(row.pct_winners,
                         Div(100 * PeopleIn(row.decile, GainsOverOnePercent),
                             total))

\* the denominator the claim describes: the baseline, or 1 when the
\* baseline is not positive
ClampedBaseline(r) == IF r.num > 0 THEN r ELSE Rat(1, 1)

\* C10: every percentage change divides by the baseline value, replaced by
\* the floor 1 when the baseline is not positive: the per-decile pct_change
\* as well as the per-household percentage change.
C10_BaselineDenominatorClamped ==
    /\ DistDone =>
          \A k \in DOMAIN dist_rows :
              LET row == dist_rows[k]
              IN  RatEq(row.pct_change,
                        RatDiv(Rat(100 * row.avg_change.num,
                                   row.avg_change.den),
                               ClampedBaseline(row.avg_baseline)))
    /\ WLDone =>
          \A i \in Households :
              RatEq(pct_change_hh[i],
                    Div(100 * (hh.reformed_hh_income[i]
                               - hh.baseline_hh_income[i]),
                        ClampedBaseline(
                            Rat(hh.baseline_hh_income[i], 1)).num))

====
